---- MODULE Spec2Model ----
(***************************************************************************)
(* Model of the ticket purchase workflow of parque_aventura.py: the park   *)
(* configuration, the user identity (Usuario), the order draft (Compra)    *)
(* with its validation, pricing and processing, the card payment window    *)
(* (VentanaPagoTarjeta) and the main form (ComprarEntradasUI).             *)
(*                                                                         *)
(* Strings are TLA+ strings; messages are built with \o exactly as the     *)
(* f-strings and " ".join of the code build them.  A date is a record      *)
(* [anio, mes, dia]; weekday, comparison and str() follow datetime.date.   *)
(***************************************************************************)
EXTENDS Integers, Sequences, FiniteSets, TLC

VARIABLES
    today,          \* date.today()
    compra,         \* the Compra object: its fields and errores
    retorno,        \* what the latest call on compra returned
    previo,         \* what the call right before the latest procesar returned
    errores_antes,  \* compra.errores as the latest es_valida call found it
    bd,             \* emails of the usuarios table
    sesion,         \* outcome of the latest Usuario.desde_la_sesion call
    ventana,        \* the VentanaPagoTarjeta: its entries, error label and whether it is open
    text_resultado, \* text of the main window's result box
    envios,         \* the calls made to the mail sender, in order
    llamadas_bd,    \* the calls made to the user store, in order
    validacion,     \* what the latest _validar_campos call returned
    formulario      \* the ComprarEntradasUI: its requester and what its widgets hold

vars_pago == <<ventana, text_resultado, envios, llamadas_bd, validacion, formulario>>

vars ==
    <<today, compra, retorno, previo, errores_antes, bd, sesion,
      ventana, text_resultado, envios, llamadas_bd, validacion, formulario>>

-----------------------------------------------------------------------------
(* ConfiguracionParque *)

DIAS_ABIERTOS == {0, 1, 2, 3, 4, 5}

CANTIDAD_MAX_ENTRADAS == 10

CANTIDAD_MIN_ENTRADAS == 1

PRECIO_REGULAR == 10000

PRECIO_VIP == 15000

\* variant: a missing key is priced as a regular pass
PRECIOS_get_sin_defecto(tipo, defecto) ==
    IF tipo = "VIP" THEN PRECIO_VIP ELSE PRECIO_REGULAR

\* PRECIOS.get(tipo, defecto): dict lookup with a default for a missing key
PRECIOS_get(tipo, defecto) ==
    IF tipo = "regular" THEN PRECIO_REGULAR
    ELSE IF tipo = "VIP" THEN PRECIO_VIP
    ELSE defecto

-----------------------------------------------------------------------------
(* datetime.date as the code uses it: weekday(), >= and str() *)

Fecha(a, m, d) == [anio |-> a, mes |-> m, dia |-> d]

EsBisiesto(a) == a % 4 = 0 /\ (a % 100 # 0 \/ a % 400 = 0)

DiasAntesDelAnio(a) ==
    LET p == a - 1 IN p * 365 + (p \div 4) - (p \div 100) + (p \div 400)

DiasAntesDelMes(a, m) ==
    <<0, 31, 59, 90, 120, 151, 181, 212, 243, 273, 304, 334>>[m]
        + (IF m > 2 /\ EsBisiesto(a) THEN 1 ELSE 0)

toordinal(f) == DiasAntesDelAnio(f.anio) + DiasAntesDelMes(f.anio, f.mes) + f.dia

\* date.weekday(): 0 = Monday ... 6 = Sunday
weekday(f) == (toordinal(f) + 6) % 7

\* date.__ge__: comparison of (year, month, day)
FechaMayorIgual(f, g) ==
    \/ f.anio > g.anio
    \/ f.anio = g.anio /\ f.mes > g.mes
    \/ f.anio = g.anio /\ f.mes = g.mes /\ f.dia >= g.dia

RECURSIVE Rellenar(_, _)
\* zero padding of a formatted number to a width
Rellenar(s, ancho) == IF Len(s) >= ancho THEN s ELSE Rellenar("0" \o s, ancho)

\* str(date): ISO format YYYY-MM-DD
FechaStr(f) ==
    Rellenar(ToString(f.anio), 4) \o "-" \o Rellenar(ToString(f.mes), 2)
        \o "-" \o Rellenar(ToString(f.dia), 2)

-----------------------------------------------------------------------------
(* Usuario *)

None == [none |-> TRUE]

\* Usuario.__init__
Usuario(email, registrado) == [email |-> email, registrado |-> registrado]

Letras ==
    {"a", "b", "c", "d", "e", "f", "g", "h", "i", "j", "k", "l", "m",
     "n", "o", "p", "q", "r", "s", "t", "u", "v", "w", "x", "y", "z",
     "A", "B", "C", "D", "E", "F", "G", "H", "I", "J", "K", "L", "M",
     "N", "O", "P", "Q", "R", "S", "T", "U", "V", "W", "X", "Y", "Z"}

Digitos == {"0", "1", "2", "3", "4", "5", "6", "7", "8", "9"}

\* the i-th character of a string
Car(s, i) == SubSeq(s, i, i)

\* the regular expression class \w
EsPalabra(ch) == ch \in Letras \cup Digitos \cup {"_"}

\* the regular expression class [\w\.-]
EsPalabraPuntoGuion(ch) == EsPalabra(ch) \/ ch \in {".", "-"}

\* re.match(r"^[\w\.-]+@[\w\.-]+\.\w+$", s) is not None.  The pattern is
\* anchored at both ends; $ also matches just before a final newline.
CoincidePatronEmail(s) ==
    LET n == Len(s)
        Finales == {n} \cup (IF n > 0 /\ Car(s, n) = "\n" THEN {n - 1} ELSE {})
    IN  \E fin \in Finales :
            \E a \in 2..fin :
                /\ Car(s, a) = "@"
                /\ \A i \in 1..(a - 1) : EsPalabraPuntoGuion(Car(s, i))
                /\ \E p \in (a + 2)..(fin - 1) :
                       /\ Car(s, p) = "."
                       /\ \A i \in (a + 1)..(p - 1) : EsPalabraPuntoGuion(Car(s, i))
                       /\ \A i \in (p + 1)..fin : EsPalabra(Car(s, i))

\* what a failing call of the user store raises
ErrorDeBD == [excepcion |-> "BD"]

\* buscar_usuario_por_email(email) on a working store: the row, or None
buscar_usuario_por_email(base, email) ==
    IF email \in base THEN [email |-> email] ELSE None

\* what one call of buscar_usuario_por_email can produce: its value, or an exception
RespuestasDeBusqueda(base, email) ==
    {buscar_usuario_por_email(base, email), ErrorDeBD}

\* variant: the store is consulted before the email is looked at
desde_la_sesion_siempre_busca(email, respuesta) ==
    IF respuesta = ErrorDeBD
    THEN [estado |-> "excepcion", entrada |-> email,
          busquedas |-> <<[email |-> email, respuesta |-> respuesta]>>]
    ELSE [estado |-> "usuario", entrada |-> email,
          usuario |-> Usuario(email, CoincidePatronEmail(email) /\ respuesta # None),
          busquedas |-> <<[email |-> email, respuesta |-> respuesta]>>]

\* Usuario.desde_la_sesion(email), given what the lookup answers if it is called:
\* the Usuario returned (or the exception that leaves the call), and the lookups made
desde_la_sesion(email, respuesta) ==
    IF email = "" \/ ~CoincidePatronEmail(email)
    THEN [estado |-> "usuario", entrada |-> email,
          usuario |-> Usuario(email, FALSE), busquedas |-> <<>>]
    ELSE IF respuesta = ErrorDeBD
    THEN [estado |-> "excepcion", entrada |-> email,
          busquedas |-> <<[email |-> email, respuesta |-> respuesta]>>]
    ELSE [estado |-> "usuario", entrada |-> email,
          usuario |-> Usuario(email, respuesta # None),
          busquedas |-> <<[email |-> email, respuesta |-> respuesta]>>]

-----------------------------------------------------------------------------
(* Compra *)

MSG_USUARIO == "El usuario no es válido o no está registrado."

MSG_FECHA == "La fecha no es válida o el parque está cerrado."

MSG_CANTIDAD ==
    "Cantidad de entradas inválida (debe ser entre "
        \o ToString(CANTIDAD_MIN_ENTRADAS) \o " y "
        \o ToString(CANTIDAD_MAX_ENTRADAS) \o ")."

MSG_EDADES == "Debe indicar la edad de cada visitante."

MSG_FORMA_PAGO == "Debe seleccionar una forma de pago válida."

SUFIJO_TARJETA == " Redirigiendo a Mercado Pago..."

SUFIJO_EFECTIVO == " Pago en boletería."

\* Compra.__init__
Compra(usuario_logueado, fecha_visita, cantidad, edades, tipo_pase, forma_pago) ==
    [usuario |-> usuario_logueado,
     fecha_visita |-> fecha_visita,
     cantidad |-> cantidad,
     edades |-> edades,
     tipo_pase |-> tipo_pase,
     forma_pago |-> forma_pago,
     errores |-> <<>>]

validar_usuario(c) ==
    IF c.usuario = None \/ ~c.usuario.registrado
    THEN [c EXCEPT !.errores = Append(@, MSG_USUARIO)]
    ELSE c

validar_fecha(c, hoy) ==
    IF ~(FechaMayorIgual(c.fecha_visita, hoy) /\ weekday(c.fecha_visita) \in DIAS_ABIERTOS)
    THEN [c EXCEPT !.errores = Append(@, MSG_FECHA)]
    ELSE c

\* variant: the maximum itself is rejected
validar_cantidad_max_excluido(c) ==
    IF ~(CANTIDAD_MIN_ENTRADAS <= c.cantidad /\ c.cantidad < CANTIDAD_MAX_ENTRADAS)
    THEN [c EXCEPT !.errores = Append(@, MSG_CANTIDAD)]
    ELSE c

validar_cantidad(c) ==
    IF ~(CANTIDAD_MIN_ENTRADAS <= c.cantidad /\ c.cantidad <= CANTIDAD_MAX_ENTRADAS)
    THEN [c EXCEPT !.errores = Append(@, MSG_CANTIDAD)]
    ELSE c

\* variant: only an empty list of ages is rejected
validar_edades_solo_vacia(c) ==
    IF c.edades = <<>>
    THEN [c EXCEPT !.errores = Append(@, MSG_EDADES)]
    ELSE c

validar_edades(c) ==
    IF c.edades = <<>> \/ Len(c.edades) # c.cantidad
    THEN [c EXCEPT !.errores = Append(@, MSG_EDADES)]
    ELSE c

\* variant: an unknown payment method is replaced by cash
validar_forma_pago_por_defecto(c) ==
    IF c.forma_pago \notin {"efectivo", "tarjeta"}
    THEN [c EXCEPT !.forma_pago = "efectivo"]
    ELSE c

validar_forma_pago(c) ==
    IF c.forma_pago \notin {"efectivo", "tarjeta"}
    THEN [c EXCEPT !.errores = Append(@, MSG_FORMA_PAGO)]
    ELSE c

\* variant: validation stops at the first failing check
es_valida_falla_rapido(c, hoy) ==
    LET c0 == [c EXCEPT !.errores = <<>>]
        c1 == validar_usuario(c0)
        c2 == IF c1.errores # <<>> THEN c1 ELSE validar_fecha(c1, hoy)
        c3 == IF c2.errores # <<>> THEN c2 ELSE validar_cantidad(c2)
        c4 == IF c3.errores # <<>> THEN c3 ELSE validar_edades(c3)
        c5 == IF c4.errores # <<>> THEN c4 ELSE validar_forma_pago(c4)
    IN  [compra |-> c5, valor |-> (c5.errores = <<>>)]

\* variant: errores is not emptied at the start of a run
es_valida_sin_reinicio(c, hoy) ==
    LET c1 == validar_usuario(c)
        c2 == validar_fecha(c1, hoy)
        c3 == validar_cantidad(c2)
        c4 == validar_edades(c3)
        c5 == validar_forma_pago(c4)
    IN  [compra |-> c5, valor |-> (c5.errores = <<>>)]

\* variant: the pass type is validated against the price table
es_valida_con_tipo(c, hoy) ==
    LET c0 == [c EXCEPT !.errores = <<>>]
        c1 == validar_usuario(c0)
        c2 == validar_fecha(c1, hoy)
        c3 == validar_cantidad(c2)
        c4 == validar_edades(c3)
        c5 == validar_forma_pago(c4)
        c6 == IF c5.tipo_pase \notin {"regular", "VIP"}
              THEN [c5 EXCEPT !.errores = Append(@, "Tipo de pase inválido.")]
              ELSE c5
    IN  [compra |-> c6, valor |-> (c6.errores = <<>>)]

\* Compra.es_valida: the draft it leaves and the value it returns
es_valida(c, hoy) ==
    LET c0 == [c EXCEPT !.errores = <<>>]
        c1 == validar_usuario(c0)
        c2 == validar_fecha(c1, hoy)
        c3 == validar_cantidad(c2)
        c4 == validar_edades(c3)
        c5 == validar_forma_pago(c4)
    IN  [compra |-> c5, valor |-> (c5.errores = <<>>)]

\* variant: the pass type is ignored
calcular_monto_total_precio_fijo(c) == c.cantidad * PRECIO_REGULAR

calcular_monto_total(c) == c.cantidad * PRECIOS_get(c.tipo_pase, 0)

RECURSIVE Join_sin_separador(_, _)
\* variant: the separator is left out
Join_sin_separador(sep, xs) ==
    IF xs = <<>> THEN "" ELSE xs[1] \o Join_sin_separador(sep, Tail(xs))

RECURSIVE Join(_, _)
\* sep.join(xs)
Join(sep, xs) ==
    IF xs = <<>> THEN ""
    ELSE IF Len(xs) = 1 THEN xs[1]
    ELSE xs[1] \o sep \o Join(sep, Tail(xs))

\* variant: the two notices are swapped
sufijo_de_pago_invertido(forma_pago) ==
    IF forma_pago = "tarjeta" THEN SUFIJO_EFECTIVO ELSE SUFIJO_TARJETA

\* the notice procesar appends for the payment method
sufijo_de_pago(forma_pago) ==
    IF forma_pago = "tarjeta" THEN SUFIJO_TARJETA ELSE SUFIJO_EFECTIVO

\* Compra.procesar: the draft it leaves and the result it returns
procesar(c, hoy) ==
    LET v == es_valida(c, hoy)
        d == v.compra
    IN  IF ~v.valor
        THEN [compra |-> d, ok |-> FALSE, mensaje |-> Join(" ", d.errores)]
        ELSE LET total == calcular_monto_total(d)
                 mensaje == "Compra confirmada para " \o d.usuario.email \o ": "
                                \o ToString(d.cantidad) \o " entradas para el "
                                \o FechaStr(d.fecha_visita) \o " por $"
                                \o ToString(total) \o "."
             IN  [compra |-> d, ok |-> TRUE,
                  mensaje |-> mensaje \o sufijo_de_pago(d.forma_pago)]

-----------------------------------------------------------------------------
(* VentanaPagoTarjeta: the card fields *)

\* stands in the typed texts for the character U+00B2, the superscript two
SuperindiceDos == "~"

\* str.isdigit(): non-empty and every character a digit character; the
\* superscript two is one, as are the decimal digits
isdigit(s) == s # "" /\ \A i \in 1..Len(s) : Car(s, i) \in Digitos \cup {SuperindiceDos}

\* int(s) raises ValueError: of the strings isdigit accepts, those with a
\* character that is no decimal digit
int_falla(s) == \E i \in 1..Len(s) : Car(s, i) \notin Digitos

ValorDeCifra(ch) ==
    (CHOOSE k \in 1..10 : <<"0", "1", "2", "3", "4", "5", "6", "7", "8", "9">>[k] = ch) - 1

RECURSIVE int_valor(_)
\* int(s) of a string of decimal digits
int_valor(s) ==
    IF Len(s) = 1 THEN ValorDeCifra(s)
    ELSE 10 * int_valor(SubSeq(s, 1, Len(s) - 1)) + ValorDeCifra(Car(s, Len(s)))

MSG_NOMBRE == "Por favor, ingrese su nombre y apellido."

MSG_TARJETA == "El número de tarjeta debe tener 16 dígitos numéricos."

MSG_MES_NUMERO == "El mes debe ser un número."

MSG_MES_RANGO == "El mes de vencimiento debe estar entre 1 y 12."

MSG_ANIO == "El año debe tener 4 dígitos (ej: 2025)."

MSG_VENCIDA == "La tarjeta de crédito está vencida."

MSG_CVV == "El CVV debe tener 3 dígitos numéricos."

MSG_VALUE_ERROR == "Por favor, revise que los campos numéricos sean correctos."

\* the pair _validar_campos returns, with the entries it has read
ResultadoCampos(ok, mensaje, leidos) ==
    [de |-> "_validar_campos", ok |-> ok, mensaje |-> mensaje, leidos |-> leidos]

\* variant: a card that expires in the current month is rejected
validar_campos_mes_actual_vencido(v) ==
    IF v.entry_nombre = "" \/ Len(v.entry_nombre) < 3
    THEN ResultadoCampos(FALSE, MSG_NOMBRE, <<"nombre">>)
    ELSE IF ~isdigit(v.entry_tarjeta) \/ Len(v.entry_tarjeta) # 16
    THEN ResultadoCampos(FALSE, MSG_TARJETA, <<"nombre", "tarjeta">>)
    ELSE IF ~isdigit(v.entry_mes)
    THEN ResultadoCampos(FALSE, MSG_MES_NUMERO, <<"nombre", "tarjeta", "mes">>)
    ELSE IF int_falla(v.entry_mes)
    THEN ResultadoCampos(FALSE, MSG_VALUE_ERROR, <<"nombre", "tarjeta", "mes">>)
    ELSE IF ~(1 <= int_valor(v.entry_mes) /\ int_valor(v.entry_mes) <= 12)
    THEN ResultadoCampos(FALSE, MSG_MES_RANGO, <<"nombre", "tarjeta", "mes">>)
    ELSE IF ~isdigit(v.entry_anio) \/ Len(v.entry_anio) # 4
    THEN ResultadoCampos(FALSE, MSG_ANIO, <<"nombre", "tarjeta", "mes", "anio">>)
    ELSE IF int_falla(v.entry_anio)
    THEN ResultadoCampos(FALSE, MSG_VALUE_ERROR, <<"nombre", "tarjeta", "mes", "anio">>)
    ELSE IF \/ int_valor(v.entry_anio) < v.today.anio
            \/ (int_valor(v.entry_anio) = v.today.anio /\ int_valor(v.entry_mes) <= v.today.mes)
    THEN ResultadoCampos(FALSE, MSG_VENCIDA, <<"nombre", "tarjeta", "mes", "anio">>)
    ELSE IF ~isdigit(v.entry_cvv) \/ Len(v.entry_cvv) # 3
    THEN ResultadoCampos(FALSE, MSG_CVV, <<"nombre", "tarjeta", "mes", "anio", "cvv">>)
    ELSE ResultadoCampos(TRUE, "", <<"nombre", "tarjeta", "mes", "anio", "cvv">>)

\* variant: every check runs and the last failing one gives the message
validar_campos_ultimo_error(v) ==
    LET nombre_mal == v.entry_nombre = "" \/ Len(v.entry_nombre) < 3
        tarjeta_mal == ~isdigit(v.entry_tarjeta) \/ Len(v.entry_tarjeta) # 16
        cvv_mal == ~isdigit(v.entry_cvv) \/ Len(v.entry_cvv) # 3
        todos == <<"nombre", "tarjeta", "mes", "anio", "cvv">>
    IN  IF cvv_mal THEN ResultadoCampos(FALSE, MSG_CVV, todos)
        ELSE IF tarjeta_mal THEN ResultadoCampos(FALSE, MSG_TARJETA, todos)
        ELSE IF nombre_mal THEN ResultadoCampos(FALSE, MSG_NOMBRE, todos)
        ELSE validar_campos_mes_actual_vencido(v)

\* VentanaPagoTarjeta._validar_campos: the first failing check ends it
validar_campos(v) ==
    IF v.entry_nombre = "" \/ Len(v.entry_nombre) < 3
    THEN ResultadoCampos(FALSE, MSG_NOMBRE, <<"nombre">>)
    ELSE IF ~isdigit(v.entry_tarjeta) \/ Len(v.entry_tarjeta) # 16
    THEN ResultadoCampos(FALSE, MSG_TARJETA, <<"nombre", "tarjeta">>)
    ELSE IF ~isdigit(v.entry_mes)
    THEN ResultadoCampos(FALSE, MSG_MES_NUMERO, <<"nombre", "tarjeta", "mes">>)
    ELSE IF int_falla(v.entry_mes)
    THEN ResultadoCampos(FALSE, MSG_VALUE_ERROR, <<"nombre", "tarjeta", "mes">>)
    ELSE IF ~(1 <= int_valor(v.entry_mes) /\ int_valor(v.entry_mes) <= 12)
    THEN ResultadoCampos(FALSE, MSG_MES_RANGO, <<"nombre", "tarjeta", "mes">>)
    ELSE IF ~isdigit(v.entry_anio) \/ Len(v.entry_anio) # 4
    THEN ResultadoCampos(FALSE, MSG_ANIO, <<"nombre", "tarjeta", "mes", "anio">>)
    ELSE IF int_falla(v.entry_anio)
    THEN ResultadoCampos(FALSE, MSG_VALUE_ERROR, <<"nombre", "tarjeta", "mes", "anio">>)
    ELSE IF \/ int_valor(v.entry_anio) < v.today.anio
            \/ (int_valor(v.entry_anio) = v.today.anio /\ int_valor(v.entry_mes) < v.today.mes)
    THEN ResultadoCampos(FALSE, MSG_VENCIDA, <<"nombre", "tarjeta", "mes", "anio">>)
    ELSE IF ~isdigit(v.entry_cvv) \/ Len(v.entry_cvv) # 3
    THEN ResultadoCampos(FALSE, MSG_CVV, <<"nombre", "tarjeta", "mes", "anio", "cvv">>)
    ELSE ResultadoCampos(TRUE, "", <<"nombre", "tarjeta", "mes", "anio", "cvv">>)

\* VentanaPagoTarjeta.__init__: the window over a Compra, its entries empty but
\* the receipt email, which starts as the requester's email
VentanaPagoTarjeta(compra_original, hoy) ==
    [estado |-> "abierta",
     today |-> hoy,
     email_var |-> compra_original.usuario.email,
     entry_nombre |-> "",
     entry_tarjeta |-> "",
     entry_mes |-> "",
     entry_anio |-> "",
     entry_cvv |-> "",
     label_error_pago |-> ""]

-----------------------------------------------------------------------------
(* VentanaPagoTarjeta: the payment *)

\* the pictographs of the messages, written with the characters a module can hold
ICONO_AVISO == "(!)"

ICONO_OK == "(ok)"

ICONO_ERROR == "(x)"

ICONO_CORREO == "(@)"

Blancos == {" ", "\n", "\t"}

RECURSIVE strip(_)
\* str.strip()
strip(s) ==
    IF s = "" THEN s
    ELSE IF Car(s, 1) \in Blancos THEN strip(SubSeq(s, 2, Len(s)))
    ELSE IF Car(s, Len(s)) \in Blancos THEN strip(SubSeq(s, 1, Len(s) - 1))
    ELSE s

\* the environment the mail sender reads, and whether the SMTP exchange works
EntornosDeCorreo ==
    {[credenciales |-> FALSE, simular |-> "1", smtp |-> TRUE],
     [credenciales |-> FALSE, simular |-> "0", smtp |-> TRUE],
     [credenciales |-> TRUE, simular |-> "1", smtp |-> TRUE],
     [credenciales |-> TRUE, simular |-> "1", smtp |-> FALSE]}

ErrorDeSMTP == "SMTP"

\* _enviar_correo_confirmacion and enviar_correo_confirmacion: True, or an exception
enviar_correo_confirmacion(entorno) ==
    IF ~entorno.credenciales
    THEN IF entorno.simular = "1"
         THEN [valor |-> TRUE]
         ELSE [excepcion |-> "Credenciales de email no encontradas."]
    ELSE IF entorno.smtp
    THEN [valor |-> TRUE]
    ELSE [excepcion |-> ErrorDeSMTP]

Lanza(r) == "excepcion" \in DOMAIN r

\* the call of the user store that fails, if it is made
FallasDeBD ==
    {"ninguna", "crear_tabla_usuarios", "buscar_usuario_por_email",
     "obtener_conexion", "execute", "commit"}

\* one call of the user store: it returned
LlamadaBD(op, email) == [op |-> op, email |-> email, lanza |-> FALSE]

\* the calls made when the last of them raises
HastaQueLanza(llamadas) == [llamadas EXCEPT ![Len(llamadas)].lanza = TRUE]

MSG_EXITO_TARJETA == ICONO_OK \o " ¡Pago con tarjeta procesado con éxito!\n\n"

\* the text of a rejected receipt email
mensaje_no_coincide(entered_email, email) ==
    ICONO_ERROR \o " El email ingresado (" \o entered_email
        \o ") no coincide con el usuario registrado (" \o email \o ").\n"
        \o "No se puede enviar el recibo."

\* the text of a failure of the user store
mensaje_error_bd(e) == ICONO_ERROR \o " Error al verificar/registrar email: " \o e

\* variant: a failed send is reported as a failed payment
mensaje_de_envio_sin_exito(mensaje, entered_email, enviado) ==
    IF Lanza(enviado)
    THEN ICONO_ERROR \o " Error al verificar/registrar email: " \o enviado.excepcion
    ELSE MSG_EXITO_TARJETA \o mensaje \o "\n\n" \o ICONO_CORREO
             \o " Se envió un recibo a " \o entered_email \o "."

\* the final text after the send was tried
mensaje_de_envio(mensaje, entered_email, enviado) ==
    IF Lanza(enviado)
    THEN ICONO_OK \o " Pago procesado, pero fallo el envío del email: " \o enviado.excepcion
    ELSE IF enviado.valor
    THEN MSG_EXITO_TARJETA \o mensaje \o "\n\n" \o ICONO_CORREO
             \o " Se envió un recibo a " \o entered_email \o "."
    ELSE MSG_EXITO_TARJETA \o mensaje \o "\n\n" \o ICONO_AVISO
             \o " No se pudo enviar el email de confirmación a " \o entered_email \o "."

\* what the verification of the receipt email leaves
Verificado(fin, usuario, base, llamadas) ==
    [fin |-> fin, usuario |-> usuario, bd |-> base, llamadas |-> llamadas]

\* variant: the requester is rewritten before the insert is committed
verificar_o_registrar_asigna_antes(u, entered_email, base, falla) ==
    LET crear == LlamadaBD("crear_tabla_usuarios", "")
        buscar == LlamadaBD("buscar_usuario_por_email", u.email)
        conectar == LlamadaBD("obtener_conexion", "")
        insertar == LlamadaBD("INSERT OR IGNORE", entered_email)
        commit == LlamadaBD("commit", "")
        db_row == buscar_usuario_por_email(base, u.email)
        nuevo == Usuario(entered_email, TRUE)
    IN  IF falla = "crear_tabla_usuarios"
        THEN Verificado("excepcion", u, base, HastaQueLanza(<<crear>>))
        ELSE IF falla = "buscar_usuario_por_email"
        THEN Verificado("excepcion", u, base, HastaQueLanza(<<crear, buscar>>))
        ELSE IF u.registrado /\ db_row # None
        THEN IF entered_email # u.email
             THEN Verificado("no_coincide", u, base, <<crear, buscar>>)
             ELSE Verificado("sigue", u, base, <<crear, buscar>>)
        ELSE IF falla = "obtener_conexion"
        THEN Verificado("excepcion", nuevo, base, HastaQueLanza(<<crear, buscar, conectar>>))
        ELSE IF falla = "execute"
        THEN Verificado("excepcion", nuevo, base, HastaQueLanza(<<crear, buscar, conectar, insertar>>))
        ELSE IF falla = "commit"
        THEN Verificado("excepcion", nuevo, base, HastaQueLanza(<<crear, buscar, conectar, insertar, commit>>))
        ELSE Verificado("sigue", nuevo, base \cup {entered_email},
                        <<crear, buscar, conectar, insertar, commit>>)

\* _procesar_pago, the try block up to the send: the table is created, the
\* requester's email looked up, and then either the receipt email is compared
\* with the requester's or it is inserted and the requester rewritten.  A
\* failing call ends the block with the store and the requester as they were.
verificar_o_registrar(u, entered_email, base, falla) ==
    LET crear == LlamadaBD("crear_tabla_usuarios", "")
        buscar == LlamadaBD("buscar_usuario_por_email", u.email)
        conectar == LlamadaBD("obtener_conexion", "")
        insertar == LlamadaBD("INSERT OR IGNORE", entered_email)
        commit == LlamadaBD("commit", "")
        db_row == buscar_usuario_por_email(base, u.email)
    IN  IF falla = "crear_tabla_usuarios"
        THEN Verificado("excepcion", u, base, HastaQueLanza(<<crear>>))
        ELSE IF falla = "buscar_usuario_por_email"
        THEN Verificado("excepcion", u, base, HastaQueLanza(<<crear, buscar>>))
        ELSE IF u.registrado /\ db_row # None
        THEN IF entered_email # u.email
             THEN Verificado("no_coincide", u, base, <<crear, buscar>>)
             ELSE Verificado("sigue", u, base, <<crear, buscar>>)
        ELSE IF falla = "obtener_conexion"
        THEN Verificado("excepcion", u, base, HastaQueLanza(<<crear, buscar, conectar>>))
        ELSE IF falla = "execute"
        THEN Verificado("excepcion", u, base, HastaQueLanza(<<crear, buscar, conectar, insertar>>))
        ELSE IF falla = "commit"
        THEN Verificado("excepcion", u, base, HastaQueLanza(<<crear, buscar, conectar, insertar, commit>>))
        ELSE Verificado("sigue", Usuario(entered_email, TRUE), base \cup {entered_email},
                        <<crear, buscar, conectar, insertar, commit>>)

\* one call of the mail sender
Envio(destinatario, cuerpo, resultado) ==
    [destinatario |-> destinatario, cuerpo |-> cuerpo, resultado |-> resultado]

\* what _procesar_pago leaves
Pagado(v, c, base, texto, enviados, llamadas, campos) ==
    [ventana |-> v, compra |-> c, bd |-> base, text_resultado |-> texto,
     envios |-> enviados, llamadas_bd |-> llamadas, validacion |-> campos]

\* variant: the order is processed and the result box cleared before the card
\* fields are looked at
procesar_pago_procesa_antes(v, c, hoy, base, texto, falla, entorno) ==
    LET campos == validar_campos(v)
        resultado == procesar(c, hoy)
    IN  Pagado([v EXCEPT !.label_error_pago = ICONO_AVISO \o " " \o campos.mensaje],
               resultado.compra, base, "", <<>>, <<>>, campos)

\* VentanaPagoTarjeta._procesar_pago
procesar_pago(v, c, hoy, base, texto, falla, entorno) ==
    LET campos == validar_campos(v)
    IN  IF ~campos.ok
        THEN Pagado([v EXCEPT !.label_error_pago = ICONO_AVISO \o " " \o campos.mensaje],
                    c, base, texto, <<>>, <<>>, campos)
        ELSE
        LET entered_email == strip(v.email_var)
            resultado == procesar(c, hoy)
            cerrada == [v EXCEPT !.label_error_pago = "", !.estado = "cerrada"]
        IN  IF ~resultado.ok
            THEN Pagado(cerrada, resultado.compra, base, resultado.mensaje, <<>>, <<>>, campos)
            ELSE
            LET r == verificar_o_registrar(resultado.compra.usuario, entered_email, base, falla)
                d == [resultado.compra EXCEPT !.usuario = r.usuario]
                enviado == enviar_correo_confirmacion(entorno)
            IN  CASE r.fin = "excepcion" ->
                         Pagado(cerrada, d, r.bd, mensaje_error_bd(ErrorDeBD.excepcion),
                                <<>>, r.llamadas, campos)
                  [] r.fin = "no_coincide" ->
                         Pagado(cerrada, d, r.bd,
                                mensaje_no_coincide(entered_email, resultado.compra.usuario.email),
                                <<>>, r.llamadas, campos)
                  [] r.fin = "sigue" ->
                         Pagado(cerrada, d, r.bd,
                                mensaje_de_envio(resultado.mensaje, entered_email, enviado),
                                <<Envio(entered_email, resultado.mensaje, enviado)>>,
                                r.llamadas, campos)

-----------------------------------------------------------------------------
(* ComprarEntradasUI *)

\* int(s) raises ValueError, for the texts of the form: the empty text and
\* those with a character that is no decimal digit
int_lanza(s) == s = "" \/ int_falla(s)

\* ComprarEntradasUI.__init__: the date menus on today, one ticket with its
\* age entry empty, a regular pass paid in cash
ComprarEntradasUI(usuario_logueado, hoy) ==
    [estado |-> "abierta",
     usuario_logueado |-> usuario_logueado,
     anio_var |-> ToString(hoy.anio),
     mes_var |-> ToString(hoy.mes),
     dia_var |-> ToString(hoy.dia),
     cantidad_var |-> "1",
     edades_inputs |-> <<"">>,
     tipo_pase |-> "regular",
     forma_pago |-> "efectivo"]

\* ComprarEntradasUI.actualizar_campos_edad: one empty age entry per ticket;
\* for a quantity out of range the entries are left as they were
actualizar_campos_edad(f) ==
    LET cantidad == IF int_lanza(f.cantidad_var) THEN 0 ELSE int_valor(f.cantidad_var)
    IN  IF ~(CANTIDAD_MIN_ENTRADAS <= cantidad /\ cantidad <= CANTIDAD_MAX_ENTRADAS)
        THEN f
        ELSE [f EXCEPT !.edades_inputs = [i \in 1..cantidad |-> ""]]

\* ComprarEntradasUI.ajustar_cantidad
ajustar_cantidad(f, cambio) ==
    actualizar_campos_edad(
        IF int_lanza(f.cantidad_var)
        THEN [f EXCEPT !.cantidad_var = ToString(CANTIDAD_MIN_ENTRADAS)]
        ELSE LET nueva_cantidad == int_valor(f.cantidad_var) + cambio
             IN  IF CANTIDAD_MIN_ENTRADAS <= nueva_cantidad
                        /\ nueva_cantidad <= CANTIDAD_MAX_ENTRADAS
                 THEN [f EXCEPT !.cantidad_var = ToString(nueva_cantidad)]
                 ELSE f)

MSG_DATOS_INVALIDOS == ICONO_AVISO \o " Datos inválidos. Por favor, revise su selección."

MSG_EDADES_MAYORES == ICONO_AVISO \o " Todas las edades deben ser mayores a 0."

\* the final text of realizar_compra after the send was tried
mensaje_de_compra(mensaje_base, email, enviado) ==
    IF Lanza(enviado)
    THEN mensaje_base \o "\n\n" \o ICONO_AVISO \o " Error al enviar el correo: "
             \o enviado.excepcion
    ELSE IF enviado.valor
    THEN mensaje_base \o "\n\n" \o ICONO_CORREO \o " Se envió un recibo a " \o email \o "."
    ELSE mensaje_base \o "\n\n" \o ICONO_AVISO
             \o " No se pudo enviar el email de confirmación."

\* what realizar_compra leaves: the text of the result box, the Compra it
\* built (None if it built none) and the calls it made to the mail sender
Comprado(texto, c, enviados) == [text_resultado |-> texto, compra |-> c, envios |-> enviados]

\* ComprarEntradasUI.realizar_compra.  The date menus only offer days that
\* exist, so date() only fails through int().
realizar_compra(f, hoy, entorno) ==
    IF \/ int_lanza(f.anio_var) \/ int_lanza(f.mes_var) \/ int_lanza(f.dia_var)
       \/ int_lanza(f.cantidad_var)
    THEN Comprado(MSG_DATOS_INVALIDOS, None, <<>>)
    ELSE IF \E i \in 1..Len(f.edades_inputs) :
                \/ int_lanza(f.edades_inputs[i])
                \/ int_valor(f.edades_inputs[i]) < 1
    THEN Comprado(MSG_EDADES_MAYORES, None, <<>>)
    ELSE
    LET fecha_visita == Fecha(int_valor(f.anio_var), int_valor(f.mes_var), int_valor(f.dia_var))
        edades == [i \in 1..Len(f.edades_inputs) |-> int_valor(f.edades_inputs[i])]
        resultado == procesar(Compra(f.usuario_logueado, fecha_visita,
                                     int_valor(f.cantidad_var), edades,
                                     f.tipo_pase, f.forma_pago), hoy)
        enviado == enviar_correo_confirmacion(entorno)
    IN  IF ~resultado.ok
        THEN Comprado(resultado.mensaje, resultado.compra, <<>>)
        ELSE Comprado(mensaje_de_compra(resultado.mensaje, f.usuario_logueado.email, enviado),
                      resultado.compra,
                      <<Envio(f.usuario_logueado.email, resultado.mensaje, enviado)>>)

-----------------------------------------------------------------------------
(* Inputs of the model *)

\* number of consecutive calendar days the visit date ranges over
DiasVentana == 3

\* number of those days the current date ranges over
DiasHoy == 2

Calendario ==
    <<Fecha(2026, 10, 31), Fecha(2026, 11, 1), Fecha(2026, 11, 2),
      Fecha(2026, 11, 3), Fecha(2026, 11, 4)>>

Fechas == {Calendario[i] : i \in 1..DiasVentana}

Hoys == {Calendario[i] : i \in 1..DiasHoy}

Usuarios ==
    {None, Usuario("ana@mail.com", TRUE), Usuario("luis@mail.com", TRUE),
     Usuario("luis@mail.com", FALSE)}

Cantidades ==
    {CANTIDAD_MIN_ENTRADAS - 1, CANTIDAD_MIN_ENTRADAS, 2, 3,
     CANTIDAD_MAX_ENTRADAS, CANTIDAD_MAX_ENTRADAS + 1}

ListasDeEdades ==
    {<<>>, <<30, 40>>, <<8, 30, 40>>, [i \in 1..CANTIDAD_MAX_ENTRADAS |-> 25]}

TiposDePase == {"regular", "VIP", "premium"}

FormasDePago == {"efectivo", "tarjeta", "cheque"}

Ninguna == [de |-> "ninguna"]

SinSesion == [estado |-> "sin_sesion"]

\* no card window has been built
SinVentana == [estado |-> "sin_abrir"]

\* no main window has been built
SinFormulario == [estado |-> "sin_abrir"]

\* no window has been built and nothing has been paid
SinPago ==
    /\ ventana = SinVentana
    /\ text_resultado = ""
    /\ envios = <<>>
    /\ llamadas_bd = <<>>
    /\ validacion = Ninguna
    /\ formulario = SinFormulario

-----------------------------------------------------------------------------
(* The order draft: construction, calls and field assignments *)

Init ==
    /\ today \in Hoys
    /\ compra \in {Compra(u, f, n, e, t, p) :
                       u \in Usuarios, f \in Fechas, n \in Cantidades,
                       e \in ListasDeEdades, t \in TiposDePase, p \in FormasDePago}
    /\ retorno = Ninguna
    /\ previo = Ninguna
    /\ errores_antes = <<>>
    /\ bd = {}
    /\ sesion = SinSesion
    /\ SinPago

EsValida ==
    LET v == es_valida(compra, today)
    IN  /\ compra' = v.compra
        /\ retorno' = [de |-> "es_valida", valor |-> v.valor]
        /\ previo' = Ninguna
        /\ errores_antes' = compra.errores
        /\ UNCHANGED <<today, bd, sesion, vars_pago>>

CalcularMontoTotal ==
    /\ retorno' = [de |-> "calcular_monto_total", valor |-> calcular_monto_total(compra)]
    /\ previo' = Ninguna
    /\ errores_antes' = <<>>
    /\ UNCHANGED <<today, compra, bd, sesion, vars_pago>>

Procesar ==
    LET r == procesar(compra, today)
    IN  /\ compra' = r.compra
        /\ retorno' = [de |-> "procesar", ok |-> r.ok, mensaje |-> r.mensaje]
        /\ previo' = retorno
        /\ errores_antes' = <<>>
        /\ UNCHANGED <<today, bd, sesion, vars_pago>>

\* a field or the date changed: no call's return value is pending any more
Cambio ==
    /\ retorno' = Ninguna
    /\ previo' = Ninguna
    /\ errores_antes' = <<>>
    /\ UNCHANGED <<bd, sesion, vars_pago>>

AsignarUsuario ==
    \E u \in Usuarios :
        /\ u # compra.usuario
        /\ compra' = [compra EXCEPT !.usuario = u]
        /\ Cambio /\ UNCHANGED today

AsignarFechaVisita ==
    \E f \in Fechas :
        /\ f # compra.fecha_visita
        /\ compra' = [compra EXCEPT !.fecha_visita = f]
        /\ Cambio /\ UNCHANGED today

AsignarCantidad ==
    \E n \in Cantidades :
        /\ n # compra.cantidad
        /\ compra' = [compra EXCEPT !.cantidad = n]
        /\ Cambio /\ UNCHANGED today

AsignarEdades ==
    \E e \in ListasDeEdades :
        /\ e # compra.edades
        /\ compra' = [compra EXCEPT !.edades = e]
        /\ Cambio /\ UNCHANGED today

AsignarTipoPase ==
    \E t \in TiposDePase :
        /\ t # compra.tipo_pase
        /\ compra' = [compra EXCEPT !.tipo_pase = t]
        /\ Cambio /\ UNCHANGED today

AsignarFormaPago ==
    \E p \in FormasDePago :
        /\ p # compra.forma_pago
        /\ compra' = [compra EXCEPT !.forma_pago = p]
        /\ Cambio /\ UNCHANGED today

\* date.today() moves on to the next calendar day
PasaElDia ==
    \E i \in 1..(DiasHoy - 1) :
        /\ today = Calendario[i]
        /\ today' = Calendario[i + 1]
        /\ Cambio /\ UNCHANGED compra

Next ==
    \/ EsValida
    \/ CalcularMontoTotal
    \/ Procesar
    \/ AsignarUsuario
    \/ AsignarFechaVisita
    \/ AsignarCantidad
    \/ AsignarEdades
    \/ AsignarTipoPase
    \/ AsignarFormaPago
    \/ PasaElDia

Spec == Init /\ [][Next]_vars

-----------------------------------------------------------------------------
(* The session: resolving the requester against the usuarios table *)

EmailsRegistrables == {"ana@mail.com", "a.b-c@x.y.ar", "_@-.c"}

EmailsDeSesion ==
    EmailsRegistrables \cup
        {"", "ana", "ana@mail", "@mail.com", "ana@.com", "ana@mail.",
         "an a@mail.com", "a@b@c.de", "ana@mail.c-m", "luis@mail.com",
         "ana@mail.com\n", "ana@mail.com "}

InitSesion ==
    /\ today = Calendario[1]
    /\ compra = Compra(None, Calendario[1], CANTIDAD_MIN_ENTRADAS, <<>>, "regular", "efectivo")
    /\ retorno = Ninguna
    /\ previo = Ninguna
    /\ errores_antes = <<>>
    /\ bd \in SUBSET EmailsRegistrables
    /\ sesion = SinSesion
    /\ SinPago

DesdeLaSesion ==
    \E email \in EmailsDeSesion :
        \E respuesta \in RespuestasDeBusqueda(bd, email) :
            /\ sesion' = desde_la_sesion(email, respuesta)
            /\ UNCHANGED <<today, compra, retorno, previo, errores_antes, bd, vars_pago>>

NextSesion == DesdeLaSesion

SpecSesion == InitSesion /\ [][NextSesion]_vars

-----------------------------------------------------------------------------
(* Vocabulary of the properties: the checks stated on the fields, and text search *)

\* sub occurs in s at position i
OcurreEn(s, sub, i) == i >= 1 /\ i + Len(sub) - 1 <= Len(s) /\ SubSeq(s, i, i + Len(sub) - 1) = sub

Posiciones(s, sub) == {i \in 1..Len(s) : OcurreEn(s, sub, i)}

Contiene(s, sub) == Posiciones(s, sub) # {}

TerminaCon(s, sub) == OcurreEn(s, sub, Len(s) - Len(sub) + 1)

EmpiezaCon(s, sub) == OcurreEn(s, sub, 1)

\* the calendar of the model: ordinal position, weekday name and ISO text of each day
DiaDeCalendario(f) == CHOOSE i \in 1..Len(Calendario) : Calendario[i] = f

DiasDeLaSemana == <<"sabado", "domingo", "lunes", "martes", "miercoles">>

TextosIso == <<"2026-10-31", "2026-11-01", "2026-11-02", "2026-11-03", "2026-11-04">>

FallaIdentidad(c) == c.usuario = None \/ c.usuario.registrado = FALSE

FallaFecha(c, hoy) ==
    \/ DiaDeCalendario(c.fecha_visita) < DiaDeCalendario(hoy)
    \/ DiasDeLaSemana[DiaDeCalendario(c.fecha_visita)] = "domingo"

FallaCantidad(c) == c.cantidad < 1 \/ c.cantidad > 10

FallaEdades(c) == Len(c.edades) = 0 \/ Len(c.edades) # c.cantidad

FallaFormaPago(c) == c.forma_pago # "efectivo" /\ c.forma_pago # "tarjeta"

OrdenValida(c, hoy) ==
    /\ ~FallaIdentidad(c)
    /\ ~FallaFecha(c, hoy)
    /\ ~FallaCantidad(c)
    /\ ~FallaEdades(c)
    /\ ~FallaFormaPago(c)

\* the five checks in their order, each with whether it fails and its message
Chequeos(c, hoy) ==
    <<[falla |-> FallaIdentidad(c),
       msg |-> "El usuario no es válido o no está registrado."],
      [falla |-> FallaFecha(c, hoy),
       msg |-> "La fecha no es válida o el parque está cerrado."],
      [falla |-> FallaCantidad(c),
       msg |-> "Cantidad de entradas inválida (debe ser entre 1 y 10)."],
      [falla |-> FallaEdades(c),
       msg |-> "Debe indicar la edad de cada visitante."],
      [falla |-> FallaFormaPago(c),
       msg |-> "Debe seleccionar una forma de pago válida."]>>

ErroresEsperados(c, hoy) ==
    LET fallan == SelectSeq(Chequeos(c, hoy), LAMBDA q : q.falla)
    IN  [i \in 1..Len(fallan) |-> fallan[i].msg]

TrasValidar == retorno.de \in {"es_valida", "procesar"}

-----------------------------------------------------------------------------
(* C1 *)

\* C1: one run of es_valida executes all five checks whatever failed before,
\* and leaves in errores exactly the messages of the failing checks, at most
\* one per check, in the order identity, date, quantity, ages, payment
\* method.  The date check fails unless the visit date is not before today
\* and falls on an open weekday, with one and the same message for a past
\* date and for a closed weekday.  The list is a function of the draft's
\* fields and the current date.
C1_ErroresExactosEnOrden ==
    retorno.de = "es_valida" =>
        /\ compra.errores = ErroresEsperados(compra, today)
        /\ (FallaFecha(compra, today) <=>
               \E i \in 1..Len(compra.errores) :
                   compra.errores[i] = "La fecha no es válida o el parque está cerrado.")

\* a run in which the first, the third and the fifth check fail and the two
\* between them pass: all checks ran, and the messages kept their order
C1_Witness ==
    /\ retorno.de = "es_valida"
    /\ FallaIdentidad(compra) /\ ~FallaFecha(compra, today) /\ FallaCantidad(compra)
    /\ FallaFormaPago(compra)
    /\ Len(compra.errores) >= 3

-----------------------------------------------------------------------------
(* C2 *)

\* the messages of the checks the draft's current fields fail
ViolacionesActuales(c, hoy) ==
    {Chequeos(c, hoy)[k].msg : k \in {j \in 1..5 : Chequeos(c, hoy)[j].falla}}

\* C2: whatever es_valida/procesar calls and field changes came before, the
\* errores list left by the latest call holds only violations of the
\* current field values, nothing carried over from earlier runs: no message
\* twice and never more than five; and es_valida returns true iff the
\* list is empty.
C2_SinAcumulacion ==
    TrasValidar =>
        /\ Len(compra.errores) <= 5
        /\ \A i \in 1..Len(compra.errores) :
               compra.errores[i] \in ViolacionesActuales(compra, today)
        /\ \A i, j \in 1..Len(compra.errores) :
               i # j => compra.errores[i] # compra.errores[j]
        /\ (retorno.de = "es_valida" => (retorno.valor <=> compra.errores = <<>>))

\* a run that found errores left by an earlier run on other field values:
\* a message that is no violation any more, and more than five in all had
\* the old ones been kept
C2_Witness ==
    /\ retorno.de = "es_valida"
    /\ compra.errores # <<>>
    /\ \E i \in 1..Len(errores_antes) :
           errores_antes[i] \notin ViolacionesActuales(compra, today)
    /\ Len(errores_antes) + Len(compra.errores) > 5

-----------------------------------------------------------------------------
(* C3 *)

\* C3 as stated: in every reachable state of a draft, from its construction
\* onward, errores is empty iff the order passes the five checks.
C3_ErroresVacioSiiValida ==
    (compra.errores = <<>>) <=> OrdenValida(compra, today)

\* C3 as amended: in every state in which the latest operation on the draft
\* is a validation run (es_valida or procesar), errores is empty iff the
\* order passes the five checks.
C3_TrasValidarVacioSiiValida ==
    TrasValidar => ((compra.errores = <<>>) <=> OrdenValida(compra, today))

\* a run on a valid draft that found errores non-empty and left it empty
C3_Witness ==
    /\ retorno.de = "es_valida"
    /\ OrdenValida(compra, today)
    /\ compra.errores = <<>>
    /\ errores_antes # <<>>

-----------------------------------------------------------------------------
(* C4 *)

RECURSIVE Inicio(_, _)
\* where the i-th of the texts xs starts when they are written one after
\* another with one character between neighbours
Inicio(xs, i) == IF i = 1 THEN 1 ELSE Inicio(xs, i - 1) + Len(xs[i - 1]) + 1

\* m is the texts xs in order with exactly one space between neighbours
UnidosPorUnEspacio(m, xs) ==
    /\ xs # <<>>
    /\ Len(m) = Inicio(xs, Len(xs) + 1) - 2
    /\ \A i \in 1..Len(xs) : OcurreEn(m, xs[i], Inicio(xs, i))
    /\ \A i \in 2..Len(xs) : Car(m, Inicio(xs, i) - 1) = " "

\* C4: procesar returns ok = false iff at least one check fails, and then
\* its message is the error messages of that run joined with a single
\* space, in check order, with no price and no confirmation text; an
\* unregistered requester, a quantity above the maximum and a date on a
\* closed weekday each give ok = false with the corresponding message.
C4_FalloYMensaje ==
    retorno.de = "procesar" =>
        /\ (retorno.ok = FALSE) <=> ~OrdenValida(compra, today)
        /\ retorno.ok = FALSE =>
               /\ compra.errores = ErroresEsperados(compra, today)
               /\ UnidosPorUnEspacio(retorno.mensaje, compra.errores)
               /\ ~Contiene(retorno.mensaje, "Compra confirmada")
               /\ ~Contiene(retorno.mensaje, "$")
               /\ ~Contiene(retorno.mensaje, "Pago en")
               /\ ~Contiene(retorno.mensaje, "Redirigiendo")
        /\ FallaIdentidad(compra) =>
               retorno.ok = FALSE /\ Contiene(retorno.mensaje, "usuario no es válido")
        /\ compra.cantidad > 10 =>
               retorno.ok = FALSE /\ Contiene(retorno.mensaje, "Cantidad de entradas inválida")
        /\ DiasDeLaSemana[DiaDeCalendario(compra.fecha_visita)] = "domingo" =>
               retorno.ok = FALSE /\ Contiene(retorno.mensaje, "fecha no es válida")

\* procesar on a draft of a present but unregistered requester, for eleven
\* tickets, on a Sunday: three or more messages to join
C4_Witness ==
    /\ retorno.de = "procesar"
    /\ retorno.ok = FALSE
    /\ compra.usuario # None
    /\ compra.cantidad = 11
    /\ DiasDeLaSemana[DiaDeCalendario(compra.fecha_visita)] = "domingo"
    /\ Len(compra.errores) >= 3

-----------------------------------------------------------------------------
(* C5 *)

RECURSIVE Decimal(_)
\* a natural number written in decimal digits
Decimal(n) ==
    LET cifras == <<"0", "1", "2", "3", "4", "5", "6", "7", "8", "9">>
    IN  IF n < 10 THEN cifras[n + 1] ELSE Decimal(n \div 10) \o cifras[(n % 10) + 1]

\* the unit price the price table gives a pass type it knows
PrecioDeTabla(tipo) == CASE tipo = "regular" -> 10000 [] tipo = "VIP" -> 15000

TipoConocido(tipo) == tipo \in {"regular", "VIP"}

TotalEsperado(c) == IF TipoConocido(c.tipo_pase) THEN c.cantidad * PrecioDeTabla(c.tipo_pase) ELSE 0

\* C5: for every valid draft procesar returns ok = true with a confirmation
\* message holding the requester email, the quantity, the date and the
\* total, followed by exactly one payment notice: the gateway-redirect
\* notice iff the payment method is card, the pay-at-counter notice iff it
\* is cash.  A registered requester, an open date, two tickets, ages
\* [30, 40], a regular pass and cash give total 20000 and "Pago en boletería."
C5_ConfirmacionYSufijo ==
    (retorno.de = "procesar" /\ OrdenValida(compra, today)) =>
        LET m == retorno.mensaje
            redirige == " Redirigiendo a Mercado Pago..."
            boleteria == " Pago en boletería."
        IN  /\ retorno.ok = TRUE
            /\ EmpiezaCon(m, "Compra confirmada para " \o compra.usuario.email \o ": ")
            /\ Contiene(m, ": " \o Decimal(compra.cantidad) \o " entradas ")
            /\ Contiene(m, " " \o TextosIso[DiaDeCalendario(compra.fecha_visita)] \o " ")
            /\ Contiene(m, " por $" \o Decimal(TotalEsperado(compra)) \o ".")
            /\ TerminaCon(m, redirige) <=> compra.forma_pago = "tarjeta"
            /\ TerminaCon(m, boleteria) <=> compra.forma_pago = "efectivo"
            /\ Cardinality(Posiciones(m, redirige)) + Cardinality(Posiciones(m, boleteria)) = 1
            /\ (/\ compra.cantidad = 2 /\ compra.edades = <<30, 40>>
                /\ compra.tipo_pase = "regular" /\ compra.forma_pago = "efectivo")
                   => Contiene(m, "20000") /\ Contiene(m, "Pago en boletería.")

\* procesar on a valid card order for ten tickets has returned
C5_Witness ==
    /\ retorno.de = "procesar"
    /\ retorno.ok = TRUE
    /\ OrdenValida(compra, today)
    /\ compra.forma_pago = "tarjeta"
    /\ compra.cantidad = 10
    /\ compra.usuario.email = "luis@mail.com"

-----------------------------------------------------------------------------
(* C6 *)

\* largest quantity the statements about every quantity range over
MaxQ == 12

\* C6: calcular_monto_total returns the quantity times the unit price of
\* the pass type in the price table (regular 10000, VIP 15000); for a
\* known pass type the total of q + 1 tickets exceeds the total of q by the
\* unit price, for every quantity q; a VIP pass with quantity 3 gives 45000.
C6_TotalLineal ==
    (retorno.de = "calcular_monto_total" /\ TipoConocido(compra.tipo_pase)) =>
        /\ retorno.valor = compra.cantidad * PrecioDeTabla(compra.tipo_pase)
        /\ \A q \in 0..MaxQ :
               calcular_monto_total([compra EXCEPT !.cantidad = q + 1])
                   - calcular_monto_total([compra EXCEPT !.cantidad = q])
                   = PrecioDeTabla(compra.tipo_pase)
        /\ (compra.tipo_pase = "VIP" /\ compra.cantidad = 3) => retorno.valor = 45000

\* calcular_monto_total has returned for a VIP pass and three tickets
C6_Witness ==
    /\ retorno.de = "calcular_monto_total"
    /\ compra.tipo_pase = "VIP"
    /\ compra.cantidad = 3
    /\ retorno.valor = 45000

-----------------------------------------------------------------------------
(* C7 *)

\* C7: a pass type that is no key of the price table never produces an
\* error: the total is 0 for every quantity, validation leaves the errores
\* it leaves for the same draft with a known pass type, and procesar on an
\* otherwise valid draft returns ok = true with a confirmation stating
\* total 0.
C7_TipoDesconocidoSinError ==
    ~TipoConocido(compra.tipo_pase) =>
        /\ retorno.de = "calcular_monto_total" =>
               /\ retorno.valor = 0
               /\ \A q \in 0..MaxQ :
                      calcular_monto_total([compra EXCEPT !.cantidad = q]) = 0
        /\ TrasValidar =>
               /\ compra.errores = ErroresEsperados([compra EXCEPT !.tipo_pase = "regular"], today)
               /\ OrdenValida(compra, today) => compra.errores = <<>>
        /\ (retorno.de = "es_valida" /\ OrdenValida(compra, today)) => retorno.valor = TRUE
        /\ (retorno.de = "procesar" /\ OrdenValida(compra, today)) =>
               /\ retorno.ok = TRUE
               /\ EmpiezaCon(retorno.mensaje, "Compra confirmada para ")
               /\ Contiene(retorno.mensaje, " por $0. ")

\* procesar has returned for an otherwise valid draft of an unknown pass type
C7_Witness ==
    /\ retorno.de = "procesar"
    /\ compra.tipo_pase = "premium"
    /\ OrdenValida(compra, today)
    /\ retorno.ok = TRUE
    /\ compra.cantidad = 3

-----------------------------------------------------------------------------
(* C8 *)

\* C8: procesar called twice in a row on the same draft, with no field and
\* not the current date changed in between, returns the same ok and the
\* identical message both times, for valid and for invalid drafts.
C8_ProcesarRepetido ==
    (retorno.de = "procesar" /\ previo.de = "procesar") =>
        /\ retorno.ok = previo.ok
        /\ retorno.mensaje = previo.mensaje

\* the second of two consecutive procesar calls on an invalid draft with
\* two or more violations has returned
C8_Witness ==
    /\ retorno.de = "procesar"
    /\ previo.de = "procesar"
    /\ retorno.ok = FALSE
    /\ Len(compra.errores) >= 2

-----------------------------------------------------------------------------
(* C9 *)

\* C9: whenever procesar returns ok = true, the quantity lies between the
\* minimum and the maximum and equals the number of visitor ages, which is
\* therefore not zero; the requester is present and registered; and the
\* payment method is cash or card.
C9_OkImplicaCamposValidos ==
    (retorno.de = "procesar" /\ retorno.ok = TRUE) =>
        /\ 1 <= compra.cantidad /\ compra.cantidad <= 10
        /\ compra.cantidad = Len(compra.edades)
        /\ Len(compra.edades) > 0
        /\ compra.usuario # None
        /\ compra.usuario.registrado = TRUE
        /\ compra.forma_pago \in {"efectivo", "tarjeta"}

\* procesar has returned ok = true for three tickets with three ages
C9_Witness ==
    /\ retorno.de = "procesar"
    /\ retorno.ok = TRUE
    /\ Len(compra.edades) = 3
    /\ compra.forma_pago = "efectivo"

-----------------------------------------------------------------------------
(* C10 *)

\* the emails of the model that match the pattern of desde_la_sesion
EmailsBienFormados ==
    {"ana@mail.com", "a.b-c@x.y.ar", "_@-.c", "luis@mail.com", "ana@mail.com\n"}

\* C10: for an empty or pattern-mismatching email desde_la_sesion returns
\* an identity with registrado = false without calling the user lookup and
\* without raising; for a well-formed email it calls the lookup exactly
\* once, with that email, and registrado is true iff the lookup returned a
\* record.
C10_DesdeLaSesion ==
    sesion.estado # "sin_sesion" =>
        IF sesion.entrada = "" \/ sesion.entrada \notin EmailsBienFormados
        THEN /\ sesion.estado = "usuario"
             /\ sesion.usuario.email = sesion.entrada
             /\ sesion.usuario.registrado = FALSE
             /\ sesion.busquedas = <<>>
        ELSE /\ Len(sesion.busquedas) = 1
             /\ sesion.busquedas[1].email = sesion.entrada
             /\ sesion.estado = "usuario" =>
                    /\ sesion.usuario.email = sesion.entrada
                    /\ sesion.usuario.registrado
                           <=> sesion.busquedas[1].respuesta = [email |-> sesion.entrada]

\* desde_la_sesion has returned a registered identity for a well-formed
\* email that is in the store
C10_Witness ==
    /\ sesion.estado = "usuario"
    /\ sesion.entrada = "a.b-c@x.y.ar"
    /\ sesion.entrada \in bd
    /\ sesion.usuario.registrado = TRUE
    /\ Len(sesion.busquedas) = 1

\* desde_la_sesion has returned for a malformed email that the store
\* could not hold, without a lookup
C10_WitnessMalFormado ==
    /\ sesion.estado = "usuario"
    /\ sesion.entrada = "ana@mail.c-m"
    /\ sesion.busquedas = <<>>

-----------------------------------------------------------------------------
(* The card window on its own: what is typed in the entries, and _validar_campos *)

NombresDeTarjeta == {"", "Al", "Ana", "Ana Paz"}

NumerosDeTarjeta ==
    {"", "4111111111111111", "411111111111111", "41111111111111111",
     "4111 1111 1111 1", "411111111111111a"}

MesesDeTarjeta == {"", "ab", SuperindiceDos, "0", "7", "07", "10", "11", "12", "13"}

AniosDeTarjeta == {"", "2025", "2026", "2027", "26", "20266", "abcd", "202~"}

CodigosCvv == {"", "123", "12", "1234", "abc", "12~"}

\* the order the window is opened over
CompraDeAna ==
    Compra(Usuario("ana@mail.com", TRUE), Calendario[3], 2, <<30, 40>>, "regular", "tarjeta")

InitCampos ==
    /\ today \in Hoys
    /\ compra = CompraDeAna
    /\ retorno = Ninguna
    /\ previo = Ninguna
    /\ errores_antes = <<>>
    /\ bd = {"ana@mail.com"}
    /\ sesion = SinSesion
    /\ ventana = VentanaPagoTarjeta(compra, today)
    /\ text_resultado = ""
    /\ envios = <<>>
    /\ llamadas_bd = <<>>
    /\ validacion = Ninguna
    /\ formulario = SinFormulario

\* the user types in the open window; what was returned for the earlier
\* content is no longer the latest answer
Escribir(nueva) ==
    /\ ventana.estado = "abierta"
    /\ ventana' = nueva
    /\ validacion' = Ninguna
    /\ retorno' = Ninguna
    /\ UNCHANGED <<today, compra, previo, errores_antes, bd, sesion,
                   text_resultado, envios, llamadas_bd, formulario>>

EscribirNombre == \E x \in NombresDeTarjeta : Escribir([ventana EXCEPT !.entry_nombre = x])

EscribirTarjeta == \E x \in NumerosDeTarjeta : Escribir([ventana EXCEPT !.entry_tarjeta = x])

EscribirMes == \E x \in MesesDeTarjeta : Escribir([ventana EXCEPT !.entry_mes = x])

EscribirAnio == \E x \in AniosDeTarjeta : Escribir([ventana EXCEPT !.entry_anio = x])

EscribirCvv == \E x \in CodigosCvv : Escribir([ventana EXCEPT !.entry_cvv = x])

\* self._validar_campos()
ValidarCampos ==
    /\ ventana.estado = "abierta"
    /\ validacion' = validar_campos(ventana)
    /\ UNCHANGED <<today, compra, retorno, previo, errores_antes, bd, sesion,
                   ventana, text_resultado, envios, llamadas_bd, formulario>>

NextCampos ==
    \/ EscribirNombre
    \/ EscribirTarjeta
    \/ EscribirMes
    \/ EscribirAnio
    \/ EscribirCvv
    \/ ValidarCampos

SpecCampos == InitCampos /\ [][NextCampos]_vars

-----------------------------------------------------------------------------
(* Vocabulary of the card checks, stated on the texts typed *)

NombresAceptables == {"Ana", "Ana Paz"}

\* the texts of exactly 16 digit characters
NumerosDe16Digitos == {"4111111111111111"}

\* the month each acceptable text stands for
MesQueDice == ("7" :> 7) @@ ("07" :> 7) @@ ("10" :> 10) @@ ("11" :> 11) @@ ("12" :> 12)

\* the message each unacceptable text of the month gets
MensajeDeMes ==
    ("" :> MSG_MES_NUMERO) @@ ("ab" :> MSG_MES_NUMERO) @@ (SuperindiceDos :> MSG_VALUE_ERROR)
        @@ ("0" :> MSG_MES_RANGO) @@ ("13" :> MSG_MES_RANGO)

\* the year each acceptable text stands for
AnioQueDice == ("2025" :> 2025) @@ ("2026" :> 2026) @@ ("2027" :> 2027)

\* the message each unacceptable text of the year gets
MensajeDeAnio ==
    ("" :> MSG_ANIO) @@ ("26" :> MSG_ANIO) @@ ("20266" :> MSG_ANIO) @@ ("abcd" :> MSG_ANIO)
        @@ ("202~" :> MSG_VALUE_ERROR)

\* the texts of exactly 3 digit characters (str.isdigit counts the superscript two)
CodigosDe3Digitos == {"123", "12~"}

\* months elapsed up to a month of a year
MesesHasta(anio, mes) == 12 * anio + mes

\* the checks in the order of the claim, each with whether it fails, the
\* message of its failure and the entries read when it is decided
ChequeosDeTarjeta(v) ==
    <<[falla |-> v.entry_nombre \notin NombresAceptables,
       mensaje |-> MSG_NOMBRE,
       leidos |-> <<"nombre">>],
      [falla |-> v.entry_tarjeta \notin NumerosDe16Digitos,
       mensaje |-> MSG_TARJETA,
       leidos |-> <<"nombre", "tarjeta">>],
      [falla |-> v.entry_mes \notin DOMAIN MesQueDice,
       mensaje |-> IF v.entry_mes \in DOMAIN MensajeDeMes THEN MensajeDeMes[v.entry_mes] ELSE "",
       leidos |-> <<"nombre", "tarjeta", "mes">>],
      [falla |-> v.entry_anio \notin DOMAIN AnioQueDice,
       mensaje |-> IF v.entry_anio \in DOMAIN MensajeDeAnio THEN MensajeDeAnio[v.entry_anio] ELSE "",
       leidos |-> <<"nombre", "tarjeta", "mes", "anio">>],
      [falla |-> /\ v.entry_mes \in DOMAIN MesQueDice
                 /\ v.entry_anio \in DOMAIN AnioQueDice
                 /\ MesesHasta(AnioQueDice[v.entry_anio], MesQueDice[v.entry_mes])
                        < MesesHasta(v.today.anio, v.today.mes),
       mensaje |-> MSG_VENCIDA,
       leidos |-> <<"nombre", "tarjeta", "mes", "anio">>],
      [falla |-> v.entry_cvv \notin CodigosDe3Digitos,
       mensaje |-> MSG_CVV,
       leidos |-> <<"nombre", "tarjeta", "mes", "anio", "cvv">>]>>

\* the checks that fail
Fallidos(v) == {k \in 1..6 : ChequeosDeTarjeta(v)[k].falla}

\* the first check that fails
PrimerFallido(v) == CHOOSE k \in Fallidos(v) : \A j \in Fallidos(v) : k <= j

\* the card expires in the month the window was opened
VenceEsteMes(v) ==
    /\ v.entry_mes \in DOMAIN MesQueDice
    /\ v.entry_anio \in DOMAIN AnioQueDice
    /\ MesQueDice[v.entry_mes] = v.today.mes
    /\ AnioQueDice[v.entry_anio] = v.today.anio

-----------------------------------------------------------------------------
(* C11 *)

\* C11: card-field validation reports at most one message, that of the first
\* failing check in the order name, card number, month, year, expiry, CVV,
\* having read no entry of a later check; it succeeds with an empty message
\* exactly when every check passes, and a card expiring in the current month
\* and year passes the expiry check.
C11_CamposFallaRapido ==
    validacion.de = "_validar_campos" =>
        /\ validacion.ok = (Fallidos(ventana) = {})
        /\ validacion.ok => validacion.mensaje = ""
        /\ ~validacion.ok =>
               /\ validacion.mensaje = ChequeosDeTarjeta(ventana)[PrimerFallido(ventana)].mensaje
               /\ validacion.leidos = ChequeosDeTarjeta(ventana)[PrimerFallido(ventana)].leidos
        /\ VenceEsteMes(ventana) => validacion.mensaje # MSG_VENCIDA
        /\ (VenceEsteMes(ventana) /\ Fallidos(ventana) \subseteq {5}) => validacion.ok

\* a card whose number and CVV are both wrong got the message of the number,
\* with the month, year and CVV entries not read
C11_Witness ==
    /\ validacion.de = "_validar_campos"
    /\ Fallidos(ventana) = {2, 6}
    /\ validacion.mensaje = MSG_TARJETA
    /\ validacion.leidos = <<"nombre", "tarjeta">>

\* a card that expires in the month the window was opened has been accepted
C11_WitnessVenceEsteMes ==
    /\ validacion.de = "_validar_campos"
    /\ VenceEsteMes(ventana)
    /\ validacion.ok

-----------------------------------------------------------------------------
(* The card window over an order: the receipt email, the card, and the Pagar button *)

UsuariosDePago == {Usuario("ana@mail.com", TRUE), Usuario("luis@mail.com", FALSE)}

\* orders that are valid but for the identity, and orders of too many tickets
ComprasDePago ==
    {Compra(u, Calendario[3], q, <<30, 40>>, "regular", "tarjeta") :
        u \in UsuariosDePago, q \in {2, 11}}

\* what the usuarios table may hold when the window is opened
BasesDePago == SUBSET {"ana@mail.com", "otra@mail.com"}

EmailsDeRecibo == {"ana@mail.com", " ana@mail.com\n", "otra@mail.com"}

Tarjeta(nombre, tarjeta, mes, anio, cvv) ==
    [nombre |-> nombre, tarjeta |-> tarjeta, mes |-> mes, anio |-> anio, cvv |-> cvv]

TarjetasDePago ==
    {Tarjeta("Ana Paz", "4111111111111111", "12", "2026", "123"),
     Tarjeta("Ana Paz", "4111111111111111", "10", "2026", "123"),
     Tarjeta("Ana Paz", "4111 1111 1111 1", "12", "2026", "123"),
     Tarjeta("Ana Paz", "4111111111111111", "12", "2026", "12")}

\* the result box still shows the text of an earlier purchase
TextosPrevios == {"Resultado anterior"}

InitPago ==
    /\ today \in Hoys
    /\ compra \in ComprasDePago
    /\ retorno = Ninguna
    /\ previo = Ninguna
    /\ errores_antes = <<>>
    /\ bd \in BasesDePago
    /\ sesion = SinSesion
    /\ ventana = VentanaPagoTarjeta(compra, today)
    /\ text_resultado \in TextosPrevios
    /\ envios = <<>>
    /\ llamadas_bd = <<>>
    /\ validacion = Ninguna
    /\ formulario = SinFormulario

EscribirEmail == \E x \in EmailsDeRecibo : Escribir([ventana EXCEPT !.email_var = x])

\* the user fills in the card
LlenarTarjeta ==
    \E t \in TarjetasDePago :
        Escribir([ventana EXCEPT !.entry_nombre = t.nombre, !.entry_tarjeta = t.tarjeta,
                                 !.entry_mes = t.mes, !.entry_anio = t.anio,
                                 !.entry_cvv = t.cvv])

\* the Pagar button: _procesar_pago from its first line to its return, with
\* the call of the store that fails (if made) and the mail environment
ProcesarPago ==
    /\ ventana.estado = "abierta"
    /\ \E falla \in FallasDeBD, entorno \in EntornosDeCorreo :
           LET r == procesar_pago(ventana, compra, today, bd, text_resultado, falla, entorno)
           IN  /\ ventana' = r.ventana
               /\ compra' = r.compra
               /\ bd' = r.bd
               /\ text_resultado' = r.text_resultado
               /\ envios' = envios \o r.envios
               /\ llamadas_bd' = llamadas_bd \o r.llamadas_bd
               /\ validacion' = r.validacion
               /\ retorno' = [de |-> "_procesar_pago",
                              antes |-> [ventana |-> ventana, compra |-> compra, bd |-> bd,
                                         text_resultado |-> text_resultado]]
    /\ UNCHANGED <<today, previo, errores_antes, sesion, formulario>>

NextPago ==
    \/ EscribirEmail
    \/ LlenarTarjeta
    \/ ProcesarPago

SpecPago == InitPago /\ [][NextPago]_vars

-----------------------------------------------------------------------------
(* Vocabulary of the payment *)

\* the latest step was a pay attempt
TrasPagar == retorno.de = "_procesar_pago"

\* the card fields passed in the latest pay attempt
CamposAceptados == TrasPagar /\ validacion.ok

\* the requester when the latest pay attempt began
Solicitante == retorno.antes.compra.usuario

\* the receipt email of the latest pay attempt
EmailDeRecibo == strip(retorno.antes.ventana.email_var)

\* the latest pay attempt inserted a user
HuboInsercion == \E i \in 1..Len(llamadas_bd) : llamadas_bd[i].op = "INSERT OR IGNORE"

\* a call of the store raised in the latest pay attempt
FalloLaBD == TrasPagar /\ \E i \in 1..Len(llamadas_bd) : llamadas_bd[i].lanza

\* the order of the latest pay attempt was valid but perhaps for the identity
OrdenValidaSalvoIdentidad ==
    /\ ~FallaFecha(retorno.antes.compra, today)
    /\ ~FallaCantidad(retorno.antes.compra)
    /\ ~FallaEdades(retorno.antes.compra)
    /\ ~FallaFormaPago(retorno.antes.compra)

-----------------------------------------------------------------------------
(* C12 *)

\* C12: whenever the requester is registered and the receipt email differs
\* from the requester's email, the pay attempt ends rejected: the notifier is
\* not invoked, no user is inserted, and the requester's email and registered
\* flag are unchanged.
C12_RegistradoNoCoincide ==
    (CamposAceptados /\ Solicitante.registrado /\ EmailDeRecibo # Solicitante.email) =>
        /\ envios = <<>>
        /\ ~HuboInsercion
        /\ bd = retorno.antes.bd
        /\ compra.usuario = Solicitante
        /\ ~EmpiezaCon(text_resultado, ICONO_OK)

\* a registered requester whose row is not in the store paid with another
\* receipt email: that email was inserted, the requester rewritten to it and
\* the receipt sent
C12_Witness ==
    /\ CamposAceptados
    /\ Solicitante = Usuario("ana@mail.com", TRUE)
    /\ "ana@mail.com" \notin retorno.antes.bd
    /\ EmailDeRecibo = "otra@mail.com"
    /\ compra.usuario = Usuario("otra@mail.com", TRUE)
    /\ "otra@mail.com" \in bd
    /\ Len(envios) = 1

-----------------------------------------------------------------------------
(* C13 *)

\* C13: when the card fields are valid and the requester was unregistered when
\* the flow started (the order being otherwise valid and no call of the store
\* raising), the flow inserts the receipt email, sets the requester
\* to registered and then invokes the notifier with the confirmation message
\* and the receipt email.
C13_NoRegistradoSeRegistra ==
    (/\ CamposAceptados
     /\ ~Solicitante.registrado
     /\ OrdenValidaSalvoIdentidad
     /\ ~FalloLaBD) =>
        /\ HuboInsercion
        /\ EmailDeRecibo \in bd
        /\ compra.usuario.registrado
        /\ Len(envios) = 1
        /\ envios[1].destinatario = EmailDeRecibo

\* an unregistered requester with valid card fields and an otherwise valid
\* order: the attempt ended with the identity error, nothing inserted or sent
C13_Witness ==
    /\ CamposAceptados
    /\ ~Solicitante.registrado
    /\ OrdenValidaSalvoIdentidad
    /\ text_resultado = MSG_USUARIO
    /\ llamadas_bd = <<>>
    /\ envios = <<>>
    /\ compra.usuario = Solicitante
    /\ ventana.estado = "cerrada"

-----------------------------------------------------------------------------
(* C14 *)

\* the notifier was invoked in the latest pay attempt and raised or returned false
FalloElEnvio ==
    /\ TrasPagar
    /\ envios # <<>>
    /\ \/ Lanza(envios[Len(envios)].resultado)
       \/ envios[Len(envios)].resultado = [valor |-> FALSE]

\* C14: if the notifier raises or returns false after the order was validated,
\* the final text is still a success message with a warning that the receipt
\* was not delivered; the order stands, a registration already committed is
\* kept, the window closes and the send is not tried again.
C14_EnvioFallidoNoAnula ==
    FalloElEnvio =>
        /\ EmpiezaCon(text_resultado, ICONO_OK)
        /\ \/ Contiene(text_resultado, "fallo el envío del email")
           \/ Contiene(text_resultado, "No se pudo enviar el email")
        /\ ~Contiene(text_resultado, ICONO_ERROR)
        /\ compra.errores = <<>>
        /\ HuboInsercion =>
               /\ EmailDeRecibo \in bd
               /\ compra.usuario = Usuario(EmailDeRecibo, TRUE)
        /\ retorno.antes.bd \subseteq bd
        /\ Len(envios) = 1
        /\ ventana.estado = "cerrada"

\* the receipt email was registered and then the send raised
C14_Witness ==
    /\ FalloElEnvio
    /\ HuboInsercion
    /\ EmailDeRecibo \notin retorno.antes.bd
    /\ envios[1].resultado = [excepcion |-> ErrorDeSMTP]

-----------------------------------------------------------------------------
(* C15 *)

\* C15: if the table creation, the lookup or the insert raises, the final text
\* is the generic verification/registration failure message and nothing else,
\* the notifier is not invoked, the requester's email and registered flag are
\* unchanged, and the handler still ends by closing the window.
C15_FalloDeBDCapturado ==
    FalloLaBD =>
        /\ text_resultado = ICONO_ERROR \o " Error al verificar/registrar email: BD"
        /\ envios = <<>>
        /\ compra.usuario = Solicitante
        /\ ventana.estado = "cerrada"

\* the insert raised after the table was created and the lookup answered
C15_Witness ==
    /\ FalloLaBD
    /\ Len(llamadas_bd) = 4
    /\ llamadas_bd[4] = [op |-> "INSERT OR IGNORE", email |-> EmailDeRecibo, lanza |-> TRUE]
    /\ EmailDeRecibo # Solicitante.email

-----------------------------------------------------------------------------
(* C17 *)

\* C17: a failure of a card-field check ends the pay attempt before procesar
\* is invoked: only the card error label is set, the store is neither read nor
\* written, the notifier is not invoked, the main result text, the order and
\* its requester are as they were, and the window stays open.
C17_FalloDeCamposSoloEtiqueta ==
    (TrasPagar /\ ~validacion.ok) =>
        /\ ventana = [retorno.antes.ventana EXCEPT
                          !.label_error_pago = ICONO_AVISO \o " " \o validacion.mensaje]
        /\ validacion.mensaje # ""
        /\ ventana.estado = "abierta"
        /\ llamadas_bd = <<>>
        /\ bd = retorno.antes.bd
        /\ envios = <<>>
        /\ text_resultado = retorno.antes.text_resultado
        /\ compra = retorno.antes.compra

\* the card number was refused for an order that procesar would have marked
\* with errors, with an earlier result still on screen
C17_Witness ==
    /\ TrasPagar
    /\ validacion.mensaje = MSG_TARJETA
    /\ FallaCantidad(compra)
    /\ compra.errores = <<>>
    /\ text_resultado = "Resultado anterior"

-----------------------------------------------------------------------------
(* The main form: its widgets and the Comprar entradas button *)

\* most purchases that reach the mail sender in one run
MaxEnvios == 1

\* most tickets chosen in the form
MaxCantidadFormulario == 2

TextosDeCantidad == {"x"} \cup {ToString(q) : q \in 1..MaxCantidadFormulario}

TextosDeEdad == {"", "30", "0"}

InitFormulario ==
    /\ today \in Hoys
    /\ compra = None
    /\ retorno = Ninguna
    /\ previo = Ninguna
    /\ errores_antes = <<>>
    /\ bd = {"ana@mail.com"}
    /\ sesion = SinSesion
    /\ ventana = SinVentana
    /\ text_resultado = ""
    /\ envios = <<>>
    /\ llamadas_bd = <<>>
    /\ validacion = Ninguna
    /\ formulario \in {ComprarEntradasUI(u, today) : u \in UsuariosDePago}

\* the user acts on a widget of the main form
Formulario(nuevo) ==
    /\ formulario.estado = "abierta"
    /\ ventana.estado # "abierta"
    /\ formulario' = nuevo
    /\ UNCHANGED <<today, compra, retorno, previo, errores_antes, bd, sesion,
                   ventana, text_resultado, envios, llamadas_bd, validacion>>

\* the date menus
SeleccionarFecha ==
    \E f \in Fechas :
        Formulario([formulario EXCEPT !.anio_var = ToString(f.anio),
                                      !.mes_var = ToString(f.mes),
                                      !.dia_var = ToString(f.dia)])

\* the quantity entry is typed in; the trace on cantidad_var rebuilds the age entries
EscribirCantidad ==
    \E x \in TextosDeCantidad :
        Formulario(actualizar_campos_edad([formulario EXCEPT !.cantidad_var = x]))

\* the + and - buttons
AjustarCantidad ==
    \E cambio \in {-1, 1} :
        /\ ~int_lanza(formulario.cantidad_var) =>
               int_valor(formulario.cantidad_var) + cambio <= MaxCantidadFormulario
        /\ Formulario(ajustar_cantidad(formulario, cambio))

\* an age entry is typed in
EscribirEdad ==
    \E i \in 1..Len(formulario.edades_inputs), x \in TextosDeEdad :
        Formulario([formulario EXCEPT !.edades_inputs[i] = x])

\* the pass type menu
SeleccionarTipoPase ==
    \E x \in {"regular", "VIP"} : Formulario([formulario EXCEPT !.tipo_pase = x])

\* the payment method menu
SeleccionarFormaPago ==
    \E x \in {"efectivo", "tarjeta"} : Formulario([formulario EXCEPT !.forma_pago = x])

\* the Comprar entradas button: realizar_compra from its first line to its return
RealizarCompra ==
    /\ formulario.estado = "abierta"
    /\ ventana.estado # "abierta"
    /\ Len(envios) < MaxEnvios
    /\ \E entorno \in EntornosDeCorreo :
           LET r == realizar_compra(formulario, today, entorno)
           IN  /\ text_resultado' = r.text_resultado
               /\ compra' = r.compra
               /\ envios' = envios \o r.envios
    /\ retorno' = [de |-> "realizar_compra"]
    /\ UNCHANGED <<today, previo, errores_antes, bd, sesion, ventana, llamadas_bd,
                   validacion, formulario>>

NextFormulario ==
    \/ SeleccionarFecha
    \/ EscribirCantidad
    \/ AjustarCantidad
    \/ EscribirEdad
    \/ SeleccionarTipoPase
    \/ SeleccionarFormaPago
    \/ RealizarCompra

SpecFormulario == InitFormulario /\ [][NextFormulario]_vars

-----------------------------------------------------------------------------
(* C16 *)

\* the receipts sent for orders paid by card
EnviosDeTarjeta == {i \in 1..Len(envios) : TerminaCon(envios[i].cuerpo, SUFIJO_TARJETA)}

\* C16: in the purchase flow started from the main form, no receipt is sent
\* for an order paid by card unless the card window was opened and its fields
\* passed validation.
C16_TarjetaValidadaAntesDeEnviar ==
    EnviosDeTarjeta # {} =>
        /\ ventana.estado # "sin_abrir"
        /\ validacion.de = "_validar_campos"
        /\ validacion.ok

\* a valid order paid by card was bought from the main form: the receipt went
\* out although no card window was ever opened and no card field validated
C16_Witness ==
    /\ retorno.de = "realizar_compra"
    /\ compra # None
    /\ compra.forma_pago = "tarjeta"
    /\ EnviosDeTarjeta = {1}
    /\ ventana = SinVentana
    /\ validacion = Ninguna

-----------------------------------------------------------------------------
(* C18 *)

\* the step is a call of es_valida, calcular_monto_total or procesar
LlamadaDeCompra == retorno'.de \in {"es_valida", "calcular_monto_total", "procesar"}

\* C18: a call of es_valida, calcular_monto_total or procesar changes no field
\* of the draft other than errores, and makes no lookup, no access to the user
\* store and no call of the mail sender; with no requester, procesar returns
\* the failure result (which it does without reading the requester's email).
C18_SoloCambiaErrores ==
    [][LlamadaDeCompra =>
           /\ compra'.usuario = compra.usuario
           /\ compra'.fecha_visita = compra.fecha_visita
           /\ compra'.cantidad = compra.cantidad
           /\ compra'.edades = compra.edades
           /\ compra'.tipo_pase = compra.tipo_pase
           /\ compra'.forma_pago = compra.forma_pago
           /\ sesion' = sesion
           /\ bd' = bd
           /\ llamadas_bd' = llamadas_bd
           /\ envios' = envios
           /\ (retorno'.de = "procesar" /\ compra.usuario = None) =>
                  /\ retorno'.ok = FALSE
                  /\ EmpiezaCon(retorno'.mensaje, MSG_USUARIO)]_vars

\* procesar has just been called on a draft with no requester and an unknown
\* payment method, and returned the failure result
C18_Witness ==
    /\ retorno.de = "procesar"
    /\ compra.usuario = None
    /\ compra.forma_pago = "cheque"
    /\ retorno.ok = FALSE
    /\ compra.errores # <<>>

====
